---- MODULE Spec2Model ----
(***************************************************************************)
(* The /quota command of pi-antigravity-quota (src/extensions/quota.ts):   *)
(* credential loading, the bounded fetch with its 15 s abort timer, the    *)
(* filter / normalise / sort / group pipeline and the table renderer.      *)
(*                                                                         *)
(* Conventions.  An optional JavaScript value (absent, undefined or null)  *)
(* is a sequence of length at most one: None is <<>>, Some(x) is <<x>>.    *)
(* Display names are sequences of one-character strings so that            *)
(* toLowerCase, includes, length and padEnd are computed character by      *)
(* character.  Fractions are counted in thousandths, instants and          *)
(* durations in milliseconds.                                              *)
(***************************************************************************)
EXTENDS Integers, Sequences, FiniteSets, TLC

VARIABLES
    pc,          \* "idle" | "awaitFetch" | "awaitText" | "settled"
    invoked,     \* TRUE once the handler has been invoked
    authFile,    \* content of ~/.pi/agent/auth.json read by this invocation
    auth,        \* loadAuth() result (None or Some(record))
    token,       \* the bearer token picked by the handler (None before)
    notices,     \* ctx.ui.notify calls of this invocation, in order
    requests,    \* fetch() calls of this invocation, in order
    trace,       \* notify and fetch() calls of this invocation, interleaved in order
    timer,       \* "none" | "pending" | "cleared" | "fired"
    elapsed,     \* milliseconds since the timer was armed
    aborted,     \* controller.signal.aborted
    cause,       \* how the fetch of this invocation settled ("none" before)
    fetched,     \* value fetchQuota resolved with (None is null)
    logged,      \* console.error calls of fetchQuota: the errors it caught
    raised,      \* exceptions raised in the try block of the handler
    models,      \* processedModels of the last classification
    groups,      \* the Claude / Gemini / Other buckets of the last grouping
    renders,     \* lengths of the model lists the rendering code ran on
    escaped,     \* TRUE iff an exception left the handler
    prevRun,     \* history: the previous invocation with this credential, if a fetch failure
    fmtIn,       \* formatRelativeTime harness: the argument
    fmtNow,      \* formatRelativeTime harness: Date.now()
    fmtOut,      \* formatRelativeTime harness: the result (None before the call)
    barIn,       \* progress-bar harness: the percent of the row
    barOut,      \* progress-bar harness: the bar and the percent colour (None before)
    renIn,       \* report harness: the values of the models mapping
    renOut       \* report harness: what the handler did with them (None before)

vars == <<pc, invoked, authFile, auth, token, notices, requests, trace, timer, elapsed,
          aborted, cause, fetched, logged, raised, models, groups, renders, escaped,
          prevRun, fmtIn, fmtNow, fmtOut, barIn, barOut, renIn, renOut>>

handlerVars == <<pc, invoked, authFile, auth, token, notices, requests, trace, timer,
                 elapsed, aborted, cause, fetched, logged, raised, models, groups,
                 renders, escaped, prevRun>>

fmtVars == <<fmtIn, fmtNow, fmtOut, barIn, barOut, renIn, renOut>>

(***************************************************************************)
(* Bounds of the model.                                                    *)
(***************************************************************************)
\* Largest number of entries in the models mapping of a response.
MaxModels == 2

\* Granularity of the passage of time while a request is in flight.
TickMs == 7500

\* The progress-bar harness tries every percent from -PercentMargin to
\* 100 + PercentMargin.
PercentMargin == 20

\* Largest number of entries in the models mapping the report harness tries.
MaxRenderModels == 3

\* Largest number of hours in the countdown forms the claims enumerate.
MaxCountdownHours == 30

(***************************************************************************)
(* Program constants.                                                      *)
(***************************************************************************)
FETCH_TIMEOUT_MS == 15000

BAR_WIDTH == 10

USAGE_COL_WIDTH == 15

GAP_LENGTH == 3

ICON_WIDTH == 3

MS_PER_MINUTE == 60000

(***************************************************************************)
(* Optional values and JavaScript truthiness.                              *)
(***************************************************************************)
None == <<>>

Some(x) == <<x>>

\* Truthiness of an optional string: absent, null and "" are falsy.
TruthyStr(o) == o # None /\ o[1] # ""

\* Truthiness of an optional character sequence (a display name).
TruthyName(o) == o # None /\ o[1] # <<>>

\* Truthiness of an optional boolean.
TruthyBool(o) == o # None /\ o[1]

\* a || b on optional strings.
JsOr(a, b) == IF TruthyStr(a) THEN a ELSE b

\* The number NaN, which arithmetic on a value that is not a number yields:
\* a value apart from every fraction, percent and count of the model.  Every
\* comparison with it is false and arithmetic on it gives NaN again.
NaN == 0 - 1000000000

IsNaN(v) == v = NaN

Max(a, b) == IF a >= b THEN a ELSE b

\* The element of a singleton.  {e(x) : x \in {v}} evaluates v once, however
\* often e uses it.
Only(S) == CHOOSE v \in S : TRUE

\* Math.round: the nearest integer, halves towards +infinity, of num / den.
MathRound(num, den) == (2 * num + den) \div (2 * den)

\* Mutant of MathCeil: Math.floor.
MathFloor(num, den) == num \div den

\* Math.ceil of num / den (den > 0).
MathCeil(num, den) == -((-num) \div den)

\* String.prototype.repeat for the space character: n spaces, as a string.
RECURSIVE Spaces(_)
Spaces(n) == IF n <= 0 THEN "" ELSE " " \o Spaces(n - 1)

\* n spaces as a character sequence.
SpaceChars(n) == [i \in 1..Max(n, 0) |-> " "]

\* String.prototype.padStart(width) of a string.
padStart(s, width) == Spaces(width - Len(s)) \o s

\* String.prototype.padEnd(width) of a character sequence.
padEnd(cs, width) == cs \o SpaceChars(width - Len(cs))

(***************************************************************************)
(* Character-level string operations on display names.                     *)
(***************************************************************************)
toLowerChar(c) ==
    CASE c = "A" -> "a" [] c = "B" -> "b" [] c = "C" -> "c" [] c = "D" -> "d"
      [] c = "E" -> "e" [] c = "F" -> "f" [] c = "G" -> "g" [] c = "H" -> "h"
      [] c = "I" -> "i" [] c = "J" -> "j" [] c = "K" -> "k" [] c = "L" -> "l"
      [] c = "M" -> "m" [] c = "N" -> "n" [] c = "O" -> "o" [] c = "P" -> "p"
      [] c = "Q" -> "q" [] c = "R" -> "r" [] c = "S" -> "s" [] c = "T" -> "t"
      [] c = "U" -> "u" [] c = "V" -> "v" [] c = "W" -> "w" [] c = "X" -> "x"
      [] c = "Y" -> "y" [] c = "Z" -> "z" [] OTHER -> c

toLowerCase(cs) == [i \in 1..Len(cs) |-> toLowerChar(cs[i])]

\* String.prototype.includes: sub occurs in cs as a contiguous substring.
includes(cs, sub) ==
    \E i \in 0..(Len(cs) - Len(sub)) : SubSeq(cs, i + 1, i + Len(sub)) = sub

KW_claude == <<"c", "l", "a", "u", "d", "e">>

KW_gemini == <<"g", "e", "m", "i", "n", "i">>

KW_gpt == <<"g", "p", "t">>

KW_image == <<"i", "m", "a", "g", "e">>

KW_imagen == <<"i", "m", "a", "g", "e", "n">>

\* The deprecated-family substring of the second filter.
DEPRECATED == <<"G", "e", "m", "i", "n", "i", " ", "2", ".", "5">>

HEADER_MODEL == <<"M", "o", "d", "e", "l">>

HEADER_RESET == "Resets"

(***************************************************************************)
(* Inputs: credential files.                                               *)
(***************************************************************************)
\* An AntigravityAuth object; every field is optional.
AuthRec(a, at, t, p) == [access |-> a, accessToken |-> at, token |-> t, projectId |-> p]

\* A credential file: kind "missing" (existsSync is false), "malformed"
\* (JSON.parse throws), "null" (the JSON value null) or "object"; for an
\* object, provider is the value under "google-antigravity" (None: no key).
FileRec(k, prov) == [kind |-> k, provider |-> prov]

NoAuthRec == AuthRec(None, None, None, None)

AuthFiles ==
    { FileRec("missing", None),
      FileRec("malformed", None),
      FileRec("null", None),
      FileRec("object", None),
      FileRec("object", Some(NoAuthRec)),
      FileRec("object", Some(AuthRec(Some(""), None, Some(""), Some("proj")))),
      FileRec("object", Some(AuthRec(Some("tokA"), None, None, None))),
      FileRec("object", Some(AuthRec(None, Some("tokB"), None, Some("")))),
      FileRec("object", Some(AuthRec(Some(""), None, Some("tokC"), None))),
      FileRec("object", Some(AuthRec(Some("tokA"), Some("tokB"), Some("tokC"), Some("proj")))) }

(***************************************************************************)
(* Inputs: responses of the remote API.                                    *)
(***************************************************************************)
N_Claude == <<"C", "l", "a", "u", "d", "e">>

N_CLAUDE == <<"C", "L", "A", "U", "D", "E", " ", "4">>

N_GeminiClaude == <<"g", "e", "m", "i", "n", "i", "-", "c", "l", "a", "u", "d", "e">>

N_Gemini25Pro == <<"G", "e", "m", "i", "n", "i", " ", "2", ".", "5", " ", "P", "r", "o">>

N_gemini25 == <<"g", "e", "m", "i", "n", "i", " ", "2", ".", "5">>

N_Gemini3 == <<"G", "e", "m", "i", "n", "i", " ", "3">>

N_GPT == <<"G", "P", "T">>

N_Imagen == <<"I", "m", "a", "g", "e", "n">>

\* The handler's clock (Date.now()) while it classifies.
Now0 == 1000000

\* An ISO timestamp string: kind "iso" (parses to the instant ms), "bad" (not
\* a parseable timestamp) or "empty" (the empty string).
Iso(ms) == [kind |-> "iso", ms |-> ms]

BadIso == [kind |-> "bad", ms |-> 0]

EmptyIso == [kind |-> "empty", ms |-> 0]

Quota(f, r) == [remainingFraction |-> f, resetTime |-> r]

Entry(n, i, q) == [displayName |-> n, isInternal |-> i, quotaInfo |-> q]

StdQuota == Some(Quota(Some(354), Some(Iso(Now0 + 90 * MS_PER_MINUTE))))

\* Raw entries that differ in the fields the filters and the grouping read.
NameEntries ==
    { Entry(Some(n), None, StdQuota) :
        n \in {N_Claude, N_CLAUDE, N_GeminiClaude, N_Gemini25Pro, N_gemini25,
               N_Gemini3, N_Imagen, <<>>} }
    \cup { Entry(None, None, StdQuota),
           Entry(Some(N_Claude), Some(TRUE), StdQuota) }

\* Raw entries that differ in the quota block.
QuotaEntries ==
    { Entry(Some(N_GPT), Some(FALSE), q) :
        q \in { None,
                Some(Quota(None, Some(EmptyIso))),
                Some(Quota(Some(100), Some(BadIso))),
                Some(Quota(Some(300), Some(Iso(Now0 - 1)))),
                Some(Quota(Some(1000), Some(Iso(Now0 + 45 * MS_PER_MINUTE)))),
                Some(Quota(Some(1500), Some(Iso(Now0)))),
                Some(Quota(Some(0 - 500), Some(Iso(Now0 + 260 * MS_PER_MINUTE)))) } }

\* The values of the models mapping: an object, or null (None).
RawValues == {Some(e) : e \in NameEntries \cup QuotaEntries} \cup {None}

RECURSIVE SeqsUpTo(_, _)
SeqsUpTo(S, n) ==
    IF n = 0 THEN {<<>>}
    ELSE LET shorter == SeqsUpTo(S, n - 1)
         IN shorter \cup {Append(s, x) : s \in {t \in shorter : Len(t) = n - 1}, x \in S}

\* A parsed response: models is None when the key is absent or null.
Response(ms) == [models |-> ms]

Responses ==
    {Response(None)} \cup {Response(Some(vs)) : vs \in SeqsUpTo(RawValues, MaxModels)}

\* A response body: kind "empty" (""), "malformed" (JSON.parse throws) or
\* "json"; value is what JSON.parse returns (None is the JSON value null).
Body(k, v) == [kind |-> k, value |-> v]

Bodies ==
    {Body("empty", None), Body("malformed", None), Body("json", None)}
    \cup {Body("json", Some(r)) : r \in Responses}

(***************************************************************************)
(* Credential loader.                                                      *)
(***************************************************************************)
\* loadAuth: null when the file is missing, when reading or parsing throws
\* (a malformed file; the JSON value null, whose property read throws), or
\* when the provider key is absent or null.
loadAuth(file) ==
    IF file.kind = "missing" THEN None
    ELSE IF file.kind \in {"malformed", "null"} THEN None
    ELSE file.provider

\* auth.access || auth.accessToken || auth.token
pickToken(a) == JsOr(JsOr(a.access, a.accessToken), a.token)

\* The fetch() call of fetchQuota: the body is {project: projectId} when the
\* project id is truthy and {} otherwise (project None).
Request(tok, projectId) ==
    [ url           |-> "https://daily-cloudcode-pa.sandbox.googleapis.com/v1internal:fetchAvailableModels",
      method        |-> "POST",
      authorization |-> "Bearer " \o tok,
      userAgent     |-> "antigravity",
      contentType   |-> "application/json",
      project       |-> IF TruthyStr(projectId) THEN projectId ELSE None ]

\* A ctx.ui.notify call: the message is text followed by detail, the value
\* interpolated into it ("" when the message is a literal).  A report
\* carries its lines; other notices have none.
Notice(text, detail, severity, lines) ==
    [text |-> text, detail |-> detail, severity |-> severity, lines |-> lines]

\* The events of an invocation the user or the network sees: a notify call,
\* with its severity and whether it is the "Fetching" notice or a report,
\* and a fetch() call.
Notified(n) ==
    [ kind |-> "notify", severity |-> n.severity,
      what |-> IF n.lines # <<>> THEN "report"
               ELSE IF n.text = "Fetching Antigravity quota..." THEN "fetching"
               ELSE IF n.text = "No quota information available." THEN "no-quota"
               ELSE "other" ]

Requested == [kind |-> "request", severity |-> "", what |-> ""]

MSG_NO_AUTH == "Antigravity auth not found (~/.pi/agent/auth.json)"

MSG_NO_TOKEN == "No access token found in auth.json"

MSG_FETCHING == "Fetching Antigravity quota..."

MSG_FAILED == "Failed to fetch quota data."

MSG_NO_QUOTA == "No quota information available."

MSG_TITLE == "Antigravity Quota Status"

MSG_ERROR_PREFIX == "Error checking quota: "

(***************************************************************************)
(* Formatting helpers.                                                     *)
(***************************************************************************)
\* Mutant of tierColor: the first threshold is exclusive.
tierColorExclusive(percentRemaining) ==
    IF ~IsNaN(percentRemaining) /\ percentRemaining < 10 THEN "red"
    ELSE IF ~IsNaN(percentRemaining) /\ percentRemaining <= 30 THEN "yellow"
    ELSE "green"

\* The colour of the bar fill in getProgressBar.
tierColor(percentRemaining) ==
    IF ~IsNaN(percentRemaining) /\ percentRemaining <= 10 THEN "red"
    ELSE IF ~IsNaN(percentRemaining) /\ percentRemaining <= 30 THEN "yellow"
    ELSE "green"

\* The colour of the percent text in renderGroup.
pctColor(remainingPercent) ==
    IF ~IsNaN(remainingPercent) /\ remainingPercent <= 10 THEN "red"
    ELSE IF ~IsNaN(remainingPercent) /\ remainingPercent <= 30 THEN "yellow"
    ELSE "green"

\* The number of glyphs String.prototype.repeat(count) produces when it does
\* not throw: NaN counts as 0.
repeatCount(count) == IF IsNaN(count) THEN 0 ELSE count

\* getProgressBar: String.prototype.repeat throws a RangeError on a negative
\* count; the filled part is built first.  filled and empty are the numbers
\* of glyphs when nothing is thrown.
getProgressBar(percentRemaining, width) ==
    LET filled == IF IsNaN(percentRemaining) THEN NaN
                  ELSE MathRound(percentRemaining * width, 100)
        empty == IF IsNaN(filled) THEN NaN ELSE width - filled
        threw == ~IsNaN(filled) /\ (filled < 0 \/ empty < 0)
        bad == IF filled < 0 THEN filled ELSE empty
    IN [ threw  |-> threw,
         err    |-> IF threw
                    THEN "RangeError: Invalid count value: " \o ToString(bad)
                    ELSE "",
         filled |-> repeatCount(filled),
         empty  |-> repeatCount(empty),
         color  |-> tierColor(percentRemaining) ]

getModelIcon(name) ==
    LET lower == toLowerCase(name)
    IN IF includes(lower, KW_claude) THEN "brain"
       ELSE IF includes(lower, KW_gpt) THEN "robot"
       ELSE IF includes(lower, KW_image) \/ includes(lower, KW_imagen) THEN "palette"
       ELSE IF includes(lower, KW_gemini) THEN "sparkles"
       ELSE "zap"

\* new Date(isoString).getTime(): None stands for NaN.
dateGetTime(iso) == IF iso.kind = "iso" THEN Some(iso.ms) ELSE None

\* Truthiness of an optional timestamp string.
TruthyIso(o) == o # None /\ o[1].kind # "empty"

\* formatRelativeTime: with an unparseable timestamp every comparison on NaN
\* is false and the minutes print as "NaN".
formatRelativeTime(isoString, now) ==
    IF ~TruthyIso(isoString) THEN "-"
    ELSE LET target == dateGetTime(isoString[1])
             isNaN == target = None
             diffMs == IF isNaN THEN 0 ELSE target[1] - now
             diffMins == MathCeil(diffMs, 1000 * 60)
             hours == diffMins \div 60
             mins == diffMins % 60
         IN IF ~isNaN /\ diffMs <= 0 THEN "Ready"
            ELSE IF ~isNaN /\ hours > 0
                 THEN ToString(hours) \o "h " \o ToString(mins) \o "m"
                 ELSE (IF isNaN THEN "NaN" ELSE ToString(mins)) \o "m"

(***************************************************************************)
(* Classifier: filter, normalise, sort, group.                             *)
(***************************************************************************)
\* First filter: !m.isInternal && m.displayName
keepNamed(m) == ~TruthyBool(m.isInternal) /\ TruthyName(m.displayName)

\* Mutant of keepCurrent: the second filter is missing.
keepCurrentOff(m) == TRUE

\* Second filter: !m.displayName.includes("Gemini 2.5")
keepCurrent(m) == ~includes(m.displayName[1], DEPRECATED)

\* m.quotaInfo?.remainingFraction ?? 0, in thousandths
remainingOf(m) ==
    IF m.quotaInfo = None \/ m.quotaInfo[1].remainingFraction = None THEN 0
    ELSE m.quotaInfo[1].remainingFraction[1]

\* m.quotaInfo?.resetTime
resetOf(m) == IF m.quotaInfo = None THEN None ELSE m.quotaInfo[1].resetTime

\* The map step: one ModelDisplay per surviving entry.
toDisplay(m, now) ==
    LET name == m.displayName[1]
    IN [ name             |-> name,
         icon             |-> getModelIcon(name),
         remainingPercent |-> IF IsNaN(remainingOf(m)) THEN NaN
                              ELSE MathRound(remainingOf(m) * 100, 1000),
         resetTime        |-> formatRelativeTime(resetOf(m), now),
         rawResetTime     |-> IF TruthyIso(resetOf(m)) THEN dateGetTime(resetOf(m)[1])
                              ELSE Some(0) ]

\* Collation order of the characters of the modelled names: punctuation,
\* then digits, then letters; case is a tie-breaker only.
COLLATION ==
    <<" ", "-", ".", "0", "1", "2", "3", "4", "5", "6", "7", "8", "9",
      "a", "b", "c", "d", "e", "f", "g", "h", "i", "j", "k", "l", "m",
      "n", "o", "p", "q", "r", "s", "t", "u", "v", "w", "x", "y", "z">>

collationRank(c) == CHOOSE i \in 1..Len(COLLATION) : COLLATION[i] = toLowerChar(c)

RECURSIVE comparePrimary(_, _, _)
comparePrimary(a, b, i) ==
    IF i > Len(a) /\ i > Len(b) THEN 0
    ELSE IF i > Len(a) THEN 0 - 1
    ELSE IF i > Len(b) THEN 1
    ELSE IF collationRank(a[i]) < collationRank(b[i]) THEN 0 - 1
    ELSE IF collationRank(a[i]) > collationRank(b[i]) THEN 1
    ELSE comparePrimary(a, b, i + 1)

RECURSIVE compareCase(_, _, _)
compareCase(a, b, i) ==
    IF i > Len(a) THEN 0
    ELSE IF a[i] = b[i] THEN compareCase(a, b, i + 1)
    ELSE IF a[i] = toLowerChar(a[i]) THEN 0 - 1
    ELSE 1

\* a.localeCompare(b): negative, zero or positive.
localeCompare(a, b) ==
    LET p == comparePrimary(a, b, 1)
    IN IF p # 0 THEN p ELSE compareCase(a, b, 1)

\* Array.prototype.sort is stable: x goes after every element not above it.
insertByName(sorted, x) ==
    LET k == Cardinality({i \in 1..Len(sorted) : localeCompare(sorted[i].name, x.name) <= 0})
    IN SubSeq(sorted, 1, k) \o <<x>> \o SubSeq(sorted, k + 1, Len(sorted))

RECURSIVE sortByName(_)
sortByName(ms) ==
    IF ms = <<>> THEN <<>>
    ELSE Only({insertByName(sorted, ms[Len(ms)]) :
                 sorted \in {sortByName(SubSeq(ms, 1, Len(ms) - 1))}})

mapSeq(ms, now) == [i \in 1..Len(ms) |-> toDisplay(ms[i][1], now)]

keepNamedOpt(v) == keepNamed(v[1])

keepCurrentOpt(v) == keepCurrent(v[1])

\* Reading m.isInternal of a null entry throws a TypeError in the first filter.
classifyThrows(values) == \E i \in 1..Len(values) : values[i] = None

ERR_NULL_ENTRY == "TypeError: Cannot read properties of null (reading 'isInternal')"

\* Object.values(data.models).filter(...).filter(...).map(...).sort(...)
processModels(values, now) ==
    Only({sortByName(mapped) :
            mapped \in {mapSeq(SelectSeq(SelectSeq(values, keepNamedOpt), keepCurrentOpt), now)}})

NoGroups == [Claude |-> <<>>, Gemini |-> <<>>, Other |-> <<>>]

\* Mutant of pushGroup: Gemini is tested before Claude.
pushGroupGeminiFirst(g, m) ==
    IF includes(toLowerCase(m.name), KW_gemini) THEN [g EXCEPT !.Gemini = Append(@, m)]
    ELSE IF includes(toLowerCase(m.name), KW_claude) THEN [g EXCEPT !.Claude = Append(@, m)]
    ELSE [g EXCEPT !.Other = Append(@, m)]

\* One iteration of the grouping loop: Claude is tested before Gemini, the
\* rest goes to Other.
pushGroup(g, m) ==
    IF includes(toLowerCase(m.name), KW_claude) THEN [g EXCEPT !.Claude = Append(@, m)]
    ELSE IF includes(toLowerCase(m.name), KW_gemini) THEN [g EXCEPT !.Gemini = Append(@, m)]
    ELSE [g EXCEPT !.Other = Append(@, m)]

RECURSIVE groupLoop(_, _)
groupLoop(ms, n) == IF n = 0 THEN NoGroups ELSE pushGroup(groupLoop(ms, n - 1), ms[n])

groupModels(ms) == groupLoop(ms, Len(ms))

(***************************************************************************)
(* Renderer.  A line of the report is a record; the fields a kind of line  *)
(* does not use hold their defaults.                                       *)
(***************************************************************************)
Line(kind, icon, name, bar, pct, pctCol, reset, resetColor, width) ==
    [ kind |-> kind, icon |-> icon, name |-> name, filled |-> bar.filled,
      empty |-> bar.empty, barColor |-> bar.color, pct |-> pct,
      pctColor |-> pctCol, reset |-> reset, resetColor |-> resetColor,
      width |-> width ]

NoBar == [threw |-> FALSE, err |-> "", filled |-> 0, empty |-> 0, color |-> ""]

TitleLine == Line("title", "", <<>>, NoBar, "", "", "", "", 0)

SeparatorLine(totalWidth) == Line("separator", "", <<>>, NoBar, "", "", "", "", totalWidth)

BlankLine == Line("blank", "", <<>>, NoBar, "", "", "", "", 0)

HeaderLine(maxNameLen, maxResetLen) ==
    Line("header", "", padEnd(HEADER_MODEL, maxNameLen), NoBar, "", "",
         padStart(HEADER_RESET, maxResetLen), "dim", 0)

\* The body of the loop of renderGroup for one model.
renderRow(m, maxNameLen, maxResetLen) ==
    Line("row", m.icon, padEnd(m.name, maxNameLen),
         getProgressBar(m.remainingPercent, BAR_WIDTH),
         padStart(IF IsNaN(m.remainingPercent) THEN "NaN"
                  ELSE ToString(m.remainingPercent), 3) \o "%",
         pctColor(m.remainingPercent),
         padStart(m.resetTime, maxResetLen),
         IF m.resetTime # "-" /\ m.resetTime # "Ready" THEN "blue" ELSE "dim",
         0)

renderGroup(ms, maxNameLen, maxResetLen) ==
    [i \in 1..Len(ms) |-> renderRow(ms[i], maxNameLen, maxResetLen)]

RECURSIVE maxOver(_, _, _)
maxOver(floor, lens, n) == IF n = 0 THEN floor ELSE Max(maxOver(floor, lens, n - 1), lens[n])

spacer(cond) == IF cond THEN <<BlankLine>> ELSE <<>>

\* groups["Claude"].length && groups["Gemini"].length
spacerBeforeGemini(g) == Len(g.Claude) # 0 /\ Len(g.Gemini) # 0

\* Mutant of spacerBeforeOther: only the bucket right before is looked at.
spacerBeforeOtherGeminiOnly(g) == Len(g.Gemini) # 0 /\ Len(g.Other) # 0

\* (groups["Claude"].length || groups["Gemini"].length) && groups["Other"].length
spacerBeforeOther(g) == (Len(g.Claude) # 0 \/ Len(g.Gemini) # 0) /\ Len(g.Other) # 0

\* The rendering code of the handler, from the column widths to the joined
\* lines: threw with the description of the first exception, or the lines.
render(all, g) ==
    LET maxNameLen == maxOver(Len(HEADER_MODEL), [i \in 1..Len(all) |-> Len(all[i].name)], Len(all))
        maxResetLen == maxOver(Len(HEADER_RESET), [i \in 1..Len(all) |-> Len(all[i].resetTime)], Len(all))
        totalWidth == ICON_WIDTH + maxNameLen + GAP_LENGTH + USAGE_COL_WIDTH + GAP_LENGTH + maxResetLen
        inOrder == g.Claude \o g.Gemini \o g.Other
        bars == [i \in 1..Len(inOrder) |-> getProgressBar(inOrder[i].remainingPercent, BAR_WIDTH)]
        bad == {i \in 1..Len(inOrder) : bars[i].threw}
        first == CHOOSE i \in bad : \A j \in bad : i <= j
    IN [ threw |-> bad # {},
         err   |-> IF bad # {} THEN bars[first].err ELSE "",
         lines |-> IF bad # {} THEN <<>>
                   ELSE <<TitleLine, SeparatorLine(totalWidth),
                          HeaderLine(maxNameLen, maxResetLen), SeparatorLine(totalWidth)>>
                        \o renderGroup(g.Claude, maxNameLen, maxResetLen)
                        \o spacer(spacerBeforeGemini(g))
                        \o renderGroup(g.Gemini, maxNameLen, maxResetLen)
                        \o spacer(spacerBeforeOther(g))
                        \o renderGroup(g.Other, maxNameLen, maxResetLen)
                        \o <<SeparatorLine(totalWidth)>> ]

(***************************************************************************)
(* The handler after fetchQuota has resolved with data: what it notifies,  *)
(* the models and groups it built and the lists the rendering code saw.    *)
(***************************************************************************)
Outcome(threw, err, ns, ms, g, rs) ==
    [threw |-> threw, err |-> err, notices |-> ns, models |-> ms, groups |-> g, renders |-> rs]

\* The rendering code and the final notify of the try block.
renderAndNotify(processed) ==
    Only({ Only({ IF r.threw
                  THEN Outcome(TRUE, r.err, <<>>, processed, g, <<Len(processed)>>)
                  ELSE Outcome(FALSE, "", <<Notice(MSG_TITLE, "", "info", r.lines)>>,
                               processed, g, <<Len(processed)>>) :
                  r \in {render(processed, g)} }) :
           g \in {groupModels(processed)} })

\* Mutant of onNoData: the return after the error notice is missing, and
\* the read of data.models that follows throws on null.
onNoDataNoReturn ==
    Outcome(TRUE, "TypeError: Cannot read properties of null (reading 'models')",
            <<Notice(MSG_FAILED, "", "error", <<>>)>>, <<>>, NoGroups, <<>>)

\* Mutant of onNoData: the notice tells how the fetch failed.
onNoDataTellsCause ==
    Outcome(FALSE, "", <<Notice(MSG_FAILED, cause, "error", <<>>)>>, <<>>, NoGroups, <<>>)

\* if (!data || !data.models): the error notice and the return.
onNoData == Outcome(FALSE, "", <<Notice(MSG_FAILED, "", "error", <<>>)>>, <<>>, NoGroups, <<>>)

\* Mutant of onEmpty: the return after the warning notice is missing.
onEmptyNoReturn(processed) ==
    [renderAndNotify(processed) EXCEPT
        !.notices = <<Notice(MSG_NO_QUOTA, "", "warning", <<>>)>> \o @]

\* Mutant of onEmpty: the test of the length is missing.
onEmptyRenders(processed) == renderAndNotify(processed)

\* if (processedModels.length === 0): the warning notice and the return.
onEmpty(processed) ==
    Outcome(FALSE, "", <<Notice(MSG_NO_QUOTA, "", "warning", <<>>)>>, processed, NoGroups, <<>>)

\* The try block, from the test of data to the final notify: the notices it
\* emits, or threw with the description of the exception that left it.
tryBlock(data, now) ==
    IF data = None \/ data[1].models = None THEN onNoData
    ELSE LET values == data[1].models[1]
         IN IF classifyThrows(values)
            THEN Outcome(TRUE, ERR_NULL_ENTRY, <<>>, <<>>, NoGroups, <<>>)
            ELSE Only({ IF Len(processed) = 0 THEN onEmpty(processed)
                        ELSE renderAndNotify(processed) :
                        processed \in {processModels(values, now)} })

\* Mutant of catchClause: the exception is thrown again.
catchRethrows(r) == r

\* The catch clause of the handler: an exception of the try block becomes an
\* error notice with its description and does not leave the handler.
catchClause(r) ==
    IF r.threw
    THEN [r EXCEPT !.threw = FALSE,
                   !.notices = Append(@, Notice(MSG_ERROR_PREFIX, r.err, "error", <<>>))]
    ELSE r

(***************************************************************************)
(* State machine.                                                          *)
(***************************************************************************)
\* The handler's clock values.
Clock == {Now0}

\* How a fetchQuota call that resolves with null for want of a usable body
\* can have settled.
FailCauses == {"network", "stream", "timeout", "status", "empty", "malformed"}

NoPrev == [set |-> FALSE, cause |-> "none", notices |-> <<>>]

\* Arguments of the formatRelativeTime harness.
FmtDeltas ==
    { 0 - 90 * MS_PER_MINUTE, 0 - MS_PER_MINUTE, 0 - 1, 0, 1, 2, 999, 1000, 59999,
      MS_PER_MINUTE, MS_PER_MINUTE + 1, 2 * MS_PER_MINUTE, 45 * MS_PER_MINUTE - 1,
      45 * MS_PER_MINUTE, 45 * MS_PER_MINUTE + 1, 59 * MS_PER_MINUTE,
      59 * MS_PER_MINUTE + 1, 60 * MS_PER_MINUTE - 1, 60 * MS_PER_MINUTE,
      60 * MS_PER_MINUTE + 1, 61 * MS_PER_MINUTE, 90 * MS_PER_MINUTE - 1,
      90 * MS_PER_MINUTE, 90 * MS_PER_MINUTE + 1, 119 * MS_PER_MINUTE + 1,
      120 * MS_PER_MINUTE, 260 * MS_PER_MINUTE, 1440 * MS_PER_MINUTE,
      1500 * MS_PER_MINUTE + 30000 }

FmtNows == {Now0, Now0 + 1, Now0 + 30000, Now0 + MS_PER_MINUTE}

FmtInputs == {None, Some(EmptyIso), Some(BadIso)} \cup {Some(Iso(Now0 + d)) : d \in FmtDeltas}

Init ==
    /\ pc = "idle"
    /\ invoked = FALSE
    /\ authFile = FileRec("missing", None)
    /\ auth = None
    /\ token = None
    /\ notices = <<>>
    /\ requests = <<>>
    /\ trace = <<>>
    /\ timer = "none"
    /\ elapsed = 0
    /\ aborted = FALSE
    /\ cause = "none"
    /\ fetched = None
    /\ logged = <<>>
    /\ raised = <<>>
    /\ models = <<>>
    /\ groups = NoGroups
    /\ renders = <<>>
    /\ escaped = FALSE
    /\ prevRun = NoPrev
    /\ fmtIn = None
    /\ fmtNow = Now0
    /\ fmtOut = None
    /\ barIn = 0
    /\ barOut = None
    /\ renIn = <<>>
    /\ renOut = None

\* The description of the exception the catch clause of fetchQuota receives.
fetchError(c) ==
    CASE c = "network" -> "TypeError: fetch failed"
      [] c = "stream" -> "TypeError: terminated"
      [] c = "timeout" -> "AbortError: This operation was aborted"
      [] c = "malformed" -> "SyntaxError: Unexpected token in JSON"
      [] OTHER -> ""

\* clearTimeout(timeout) in the finally clause of fetchQuota.
clearTimeout(t) == IF t = "pending" THEN "cleared" ELSE t

\* The history of the run that ends, taken when the next one starts: kept
\* when that run was a fetch failure and the next one reads the same
\* credential file.
snapshot(file) ==
    IF cause \in FailCauses /\ file = authFile
    THEN [set |-> TRUE, cause |-> cause, notices |-> notices]
    ELSE NoPrev

\* Mutant of hasToken: only an absent token is refused.
hasTokenDefined(tok) == tok # None

\* The test of the token: if (!token)
hasToken(tok) == TruthyStr(tok)

\* The handler up to its first await: loadAuth, the token, the "Fetching"
\* notice and fetchQuota up to the await of fetch().
Invoke(file) ==
    /\ pc = "idle"
    /\ LET a == loadAuth(file)
           tok == IF a = None THEN None ELSE pickToken(a[1])
       IN /\ authFile' = file
          /\ auth' = a
          /\ prevRun' = snapshot(file)
          /\ aborted' = FALSE
          /\ cause' = "none"
          /\ fetched' = None
          /\ logged' = <<>>
          /\ raised' = <<>>
          /\ invoked' = TRUE
          /\ models' = <<>>
          /\ groups' = NoGroups
          /\ renders' = <<>>
          /\ escaped' = FALSE
          /\ elapsed' = 0
          /\ IF a = None
             THEN /\ notices' = <<Notice(MSG_NO_AUTH, "", "warning", <<>>)>>
                  /\ trace' = <<Notified(Notice(MSG_NO_AUTH, "", "warning", <<>>))>>
                  /\ token' = None
                  /\ requests' = <<>>
                  /\ timer' = "none"
                  /\ pc' = "idle"
             ELSE IF ~hasToken(tok)
             THEN /\ notices' = <<Notice(MSG_NO_TOKEN, "", "warning", <<>>)>>
                  /\ trace' = <<Notified(Notice(MSG_NO_TOKEN, "", "warning", <<>>))>>
                  /\ token' = None
                  /\ requests' = <<>>
                  /\ timer' = "none"
                  /\ pc' = "idle"
             ELSE /\ notices' = <<Notice(MSG_FETCHING, "", "info", <<>>)>>
                  /\ trace' = <<Notified(Notice(MSG_FETCHING, "", "info", <<>>)), Requested>>
                  /\ token' = tok
                  /\ timer' = "pending"
                  /\ requests' = <<Request(tok[1], a[1].projectId)>>
                  /\ pc' = "awaitFetch"
    /\ UNCHANGED fmtVars

\* Mutant of Settle: clearTimeout follows JSON.parse inside the try block
\* instead of standing in a finally clause.
SettleNoFinally(c, value, log) ==
    /\ pc' = "settled"
    /\ cause' = c
    /\ fetched' = value
    /\ logged' = IF log THEN Append(logged, fetchError(c)) ELSE logged
    /\ timer' = IF c = "ok" THEN clearTimeout(timer) ELSE timer
    /\ elapsed' = IF c = "ok" THEN 0 ELSE elapsed

\* fetchQuota leaves its try statement: the value it resolves with, whether
\* the catch clause logged, and the finally clause.
Settle(c, value, log) ==
    /\ pc' = "settled"
    /\ cause' = c
    /\ fetched' = value
    /\ logged' = IF log THEN Append(logged, fetchError(c)) ELSE logged
    /\ timer' = clearTimeout(timer)
    /\ elapsed' = IF clearTimeout(timer) = "pending" THEN elapsed ELSE 0

\* Time passes while the timer is armed.
Tick ==
    /\ timer = "pending"
    /\ elapsed < FETCH_TIMEOUT_MS
    /\ elapsed' = elapsed + TickMs
    /\ UNCHANGED <<pc, invoked, authFile, auth, token, notices, requests, trace, timer, aborted,
                   cause, fetched, logged, raised, models, groups, renders, escaped,
                   prevRun>>
    /\ UNCHANGED fmtVars

\* The setTimeout callback: controller.abort().  An awaited fetch() or
\* response.text() rejects, the catch clause logs and returns null.
TimerFire ==
    /\ timer = "pending"
    /\ elapsed >= FETCH_TIMEOUT_MS
    /\ aborted' = TRUE
    /\ IF pc \in {"awaitFetch", "awaitText"}
       THEN /\ pc' = "settled"
            /\ cause' = "timeout"
            /\ fetched' = None
            /\ logged' = Append(logged, fetchError("timeout"))
       ELSE UNCHANGED <<pc, cause, fetched, logged>>
    /\ timer' = "fired"
    /\ elapsed' = 0
    /\ UNCHANGED <<invoked, authFile, auth, token, notices, requests, trace, raised, models,
                   groups, renders, escaped, prevRun>>
    /\ UNCHANGED fmtVars

\* fetch() rejects (or throws): a network-level failure.
FetchFails ==
    /\ pc = "awaitFetch"
    /\ ~aborted
    /\ Settle("network", None, TRUE)
    /\ UNCHANGED <<invoked, authFile, auth, token, notices, requests, trace, aborted, raised,
                   models, groups, renders, escaped, prevRun>>
    /\ UNCHANGED fmtVars

\* Mutant of FetchResponds: the timer is cleared as soon as fetch() has
\* resolved, before the body is read.
FetchRespondsClearsTimer(ok) ==
    /\ pc = "awaitFetch"
    /\ ~aborted
    /\ IF ok
       THEN /\ pc' = "awaitText"
            /\ timer' = clearTimeout(timer)
            /\ elapsed' = 0
            /\ UNCHANGED <<cause, fetched, logged>>
       ELSE Settle("status", None, FALSE)
    /\ UNCHANGED <<invoked, authFile, auth, token, notices, requests, trace, aborted, raised,
                   models, groups, renders, escaped, prevRun>>
    /\ UNCHANGED fmtVars

\* fetch() resolves with a response: not ok returns null, ok goes on to
\* await response.text().
FetchResponds(ok) ==
    /\ pc = "awaitFetch"
    /\ ~aborted
    /\ IF ok
       THEN /\ pc' = "awaitText"
            /\ UNCHANGED <<cause, fetched, logged, timer, elapsed>>
       ELSE Settle("status", None, FALSE)
    /\ UNCHANGED <<invoked, authFile, auth, token, notices, requests, trace, aborted, raised,
                   models, groups, renders, escaped, prevRun>>
    /\ UNCHANGED fmtVars

\* response.text() rejects: the connection broke while the body was read.
BodyFails ==
    /\ pc = "awaitText"
    /\ ~aborted
    /\ Settle("stream", None, TRUE)
    /\ UNCHANGED <<invoked, authFile, auth, token, notices, requests, trace, aborted, raised,
                   models, groups, renders, escaped, prevRun>>
    /\ UNCHANGED fmtVars

\* response.text() resolves: an empty text returns null, JSON.parse of a
\* malformed text throws into the catch clause, otherwise the parsed value
\* is returned.
BodyArrives(body) ==
    /\ pc = "awaitText"
    /\ ~aborted
    /\ IF body.kind = "empty" THEN Settle("empty", None, FALSE)
       ELSE IF body.kind = "malformed" THEN Settle("malformed", None, TRUE)
       ELSE Settle("ok", body.value, FALSE)
    /\ prevRun' = IF body.kind = "json" THEN NoPrev ELSE prevRun
    /\ UNCHANGED <<invoked, authFile, auth, token, notices, requests, trace, aborted, raised,
                   models, groups, renders, escaped>>
    /\ UNCHANGED fmtVars

\* The handler resumes after the await of fetchQuota and runs to its end.
HandlerResume(now) ==
    /\ pc = "settled"
    /\ \E t \in {tryBlock(fetched, now)} :
           \E r \in {catchClause(t)} :
               /\ notices' = notices \o r.notices
               /\ trace' = trace \o [i \in 1..Len(r.notices) |-> Notified(r.notices[i])]
               /\ raised' = IF t.threw THEN <<t.err>> ELSE <<>>
               /\ models' = r.models
               /\ groups' = r.groups
               /\ renders' = r.renders
               /\ escaped' = r.threw
    /\ pc' = "idle"
    /\ UNCHANGED <<invoked, authFile, auth, token, requests, timer, elapsed, aborted,
                   cause, fetched, logged, prevRun>>
    /\ UNCHANGED fmtVars

Next ==
    \/ \E file \in AuthFiles : Invoke(file)
    \/ Tick
    \/ TimerFire
    \/ FetchFails
    \/ \E ok \in BOOLEAN : FetchResponds(ok)
    \/ BodyFails
    \/ \E body \in Bodies : BodyArrives(body)
    \/ \E now \in Clock : HandlerResume(now)

Spec == Init /\ [][Next]_vars

\* The event loop runs a due timer callback and resumes a settled await; the
\* passage of time is not in the program's hands but does not stop.  Nothing
\* is assumed of the network.
LiveSpec ==
    /\ Spec
    /\ WF_vars(Tick)
    /\ WF_vars(TimerFire)
    /\ WF_vars(\E now \in Clock : HandlerResume(now))

(***************************************************************************)
(* Harness for the pure function formatRelativeTime.                       *)
(***************************************************************************)
FmtInit ==
    /\ pc = "idle"
    /\ invoked = FALSE
    /\ authFile = FileRec("missing", None)
    /\ auth = None
    /\ token = None
    /\ notices = <<>>
    /\ requests = <<>>
    /\ trace = <<>>
    /\ timer = "none"
    /\ elapsed = 0
    /\ aborted = FALSE
    /\ cause = "none"
    /\ fetched = None
    /\ logged = <<>>
    /\ raised = <<>>
    /\ models = <<>>
    /\ groups = NoGroups
    /\ renders = <<>>
    /\ escaped = FALSE
    /\ prevRun = NoPrev
    /\ fmtIn \in FmtInputs
    /\ fmtNow \in FmtNows
    /\ fmtOut = None
    /\ barIn = 0
    /\ barOut = None
    /\ renIn = <<>>
    /\ renOut = None

FmtCall ==
    /\ fmtOut = None
    /\ fmtOut' = Some(formatRelativeTime(fmtIn, fmtNow))
    /\ UNCHANGED <<fmtIn, fmtNow, barIn, barOut, renIn, renOut>>
    /\ UNCHANGED handlerVars

FmtNext == FmtCall

FmtSpec == FmtInit /\ [][FmtNext]_vars

(***************************************************************************)
(* Harness for the progress bar and the percent colour of one row.         *)
(***************************************************************************)
\* The handler has not been invoked.
HandlerIdle ==
    /\ pc = "idle"
    /\ invoked = FALSE
    /\ authFile = FileRec("missing", None)
    /\ auth = None
    /\ token = None
    /\ notices = <<>>
    /\ requests = <<>>
    /\ trace = <<>>
    /\ timer = "none"
    /\ elapsed = 0
    /\ aborted = FALSE
    /\ cause = "none"
    /\ fetched = None
    /\ logged = <<>>
    /\ raised = <<>>
    /\ models = <<>>
    /\ groups = NoGroups
    /\ renders = <<>>
    /\ escaped = FALSE
    /\ prevRun = NoPrev

Percents == (0 - PercentMargin)..(100 + PercentMargin)

BarInit ==
    /\ HandlerIdle
    /\ fmtIn = None
    /\ fmtNow = Now0
    /\ fmtOut = None
    /\ barIn \in Percents
    /\ barOut = None
    /\ renIn = <<>>
    /\ renOut = None

\* One iteration of the loop of renderGroup up to the percent colour.
BarCall ==
    /\ barOut = None
    /\ barOut' = Some([ bar      |-> getProgressBar(barIn, BAR_WIDTH),
                        pctColor |-> pctColor(barIn) ])
    /\ UNCHANGED <<fmtIn, fmtNow, fmtOut, barIn, renIn, renOut>>
    /\ UNCHANGED handlerVars

BarNext == BarCall

BarSpec == BarInit /\ [][BarNext]_vars

(***************************************************************************)
(* Harness for the handler after the fetch: classification, grouping and   *)
(* rendering of a models mapping of up to MaxRenderModels entries.         *)
(***************************************************************************)
\* Raw entries of the three families whose fractions lie in and out of
\* [0, 1], one of them dropped by the second filter and one with a fraction
\* that is not a number.
RenderValues ==
    { Some(Entry(Some(N_Claude), None, StdQuota)),
      Some(Entry(Some(N_Gemini3), Some(FALSE), Some(Quota(Some(1040), Some(Iso(Now0)))))),
      Some(Entry(Some(N_GPT), None, Some(Quota(Some(0 - 40), None)))),
      Some(Entry(Some(N_Imagen), None, Some(Quota(Some(1050), None)))),
      Some(Entry(Some(N_GeminiClaude), None, Some(Quota(Some(0 - 60), None)))),
      Some(Entry(Some(N_Gemini25Pro), None, Some(Quota(Some(1500), None)))),
      Some(Entry(Some(N_GPT), None, Some(Quota(Some(NaN), None)))) }

RenderInit ==
    /\ HandlerIdle
    /\ fmtIn = None
    /\ fmtNow = Now0
    /\ fmtOut = None
    /\ barIn = 0
    /\ barOut = None
    /\ renIn \in SeqsUpTo(RenderValues, MaxRenderModels)
    /\ renOut = None

\* The try block and the catch clause of the handler on a parsed response.
RenderCall ==
    /\ renOut = None
    /\ renOut' = Some(catchClause(tryBlock(Some(Response(Some(renIn))), fmtNow)))
    /\ UNCHANGED <<fmtIn, fmtNow, fmtOut, barIn, barOut, renIn>>
    /\ UNCHANGED handlerVars

RenderNext == RenderCall

RenderSpec == RenderInit /\ [][RenderNext]_vars

(***************************************************************************)
(* Claims.                                                                 *)
(***************************************************************************)
Last(q) == q[Len(q)]

CountSeverity(sev) == Cardinality({i \in 1..Len(notices) : notices[i].severity = sev})

IsReport(n) == n.lines # <<>>

FETCHING == Notice(MSG_FETCHING, "", "info", <<>>)

\* The credential file gives no credential, or one without a non-empty
\* value among access, accessToken and token.
NoUsableToken(file) ==
    \/ file.kind # "object"
    \/ file.provider = None
    \/ \A v \in {file.provider[1].access, file.provider[1].accessToken,
                 file.provider[1].token} : v = None \/ v = Some("")

\* C1: an invocation without a credential or without a non-empty token has
\* ended with exactly one notice, a warning, and has issued no request nor
\* armed a timer.
C1_NoCredentialOneWarning ==
    invoked /\ NoUsableToken(authFile) =>
        /\ pc = "idle"
        /\ Len(notices) = 1
        /\ notices[1].severity = "warning"
        /\ requests = <<>>
        /\ timer = "none"

C1_Witness ==
    /\ invoked
    /\ authFile.kind = "object"
    /\ authFile.provider # None
    /\ authFile.provider[1].access = Some("")
    /\ authFile.provider[1].token = Some("")
    /\ Len(notices) = 1
    /\ notices[1].text = MSG_NO_TOKEN

\* C2: when fetchQuota has returned null or a response without a models
\* mapping, the finished invocation has emitted exactly one error notice
\* and no report.
C2_FetchFailureOneError ==
    pc = "idle" /\ token # None /\ (fetched = None \/ fetched[1].models = None) =>
        /\ CountSeverity("error") = 1
        /\ \A i \in 1..Len(notices) : ~IsReport(notices[i])
        /\ Last(notices).severity = "error"

C2_Witness ==
    /\ pc = "idle"
    /\ token # None
    /\ cause = "status"
    /\ fetched = None
    /\ CountSeverity("error") = 1

\* C3: fetchQuota returns null for every fetch-failure cause, and two
\* finished runs with the same credential that both failed to fetch, for
\* whatever causes, have emitted the same sequence of notices.
C3_FailureCausesIndistinguishable ==
    /\ pc = "settled" /\ cause \in FailCauses => fetched = None
    /\ pc = "idle" /\ cause \in FailCauses /\ prevRun.set => prevRun.notices = notices

C3_Witness ==
    /\ pc = "idle"
    /\ prevRun.set
    /\ prevRun.cause = "timeout"
    /\ cause = "malformed"
    /\ prevRun.notices = notices
    /\ Len(notices) = 2

\* The filters drop the raw entry e: internal, unnamed, or of the
\* deprecated family.
Dropped(e) ==
    \/ e.isInternal = Some(TRUE)
    \/ e.displayName = None
    \/ e.displayName = Some(<<>>)
    \/ includes(e.displayName[1], DEPRECATED)

NothingSurvives(values) ==
    \A i \in 1..Len(values) : values[i] # None /\ Dropped(values[i][1])

HasModels == cause = "ok" /\ fetched # None /\ fetched[1].models # None

\* C4: a response with a models mapping of which the filters keep nothing
\* ends in the warning "No quota information available." and in no error
\* notice, and the rendering code never runs on an empty model list.
C4_EmptyResultWarns ==
    /\ pc = "idle" /\ HasModels /\ NothingSurvives(fetched[1].models[1]) =>
           notices = <<FETCHING, Notice(MSG_NO_QUOTA, "", "warning", <<>>)>>
    /\ \A i \in 1..Len(renders) : renders[i] > 0

C4_Witness ==
    /\ pc = "idle"
    /\ HasModels
    /\ Len(fetched[1].models[1]) = 2
    /\ NothingSurvives(fetched[1].models[1])
    /\ fetched[1].models[1][1][1].displayName = Some(N_Gemini25Pro)
    /\ Last(notices).text = MSG_NO_QUOTA

\* Every exception raised during the invocation: those fetchQuota caught
\* and those raised in the try block of the handler.
Exceptions == {logged[i] : i \in 1..Len(logged)} \cup {raised[i] : i \in 1..Len(raised)}

\* C5 as stated: no exception leaves the handler, and every exception
\* raised while fetching, classifying or rendering is described in an
\* error notice.
C5_EveryExceptionDescribed ==
    /\ ~escaped
    /\ pc = "idle" =>
           \A e \in Exceptions :
               \E i \in 1..Len(notices) :
                   notices[i].severity = "error" /\ notices[i].detail = e

\* C5 amended: no exception leaves the handler; an exception raised while
\* classifying or rendering ends the invocation with the error notice that
\* describes it; an exception raised while fetching is caught by
\* fetchQuota and ends it with the generic error notice.
C5_NoEscapeHandlerExceptionsDescribed ==
    /\ ~escaped
    /\ pc = "idle" /\ raised # <<>> =>
           notices = <<FETCHING, Notice(MSG_ERROR_PREFIX, raised[1], "error", <<>>)>>
    /\ pc = "idle" /\ logged # <<>> =>
           notices = <<FETCHING, Notice(MSG_FAILED, "", "error", <<>>)>>

C5_Witness ==
    /\ pc = "idle"
    /\ ~escaped
    /\ raised = <<"RangeError: Invalid count value: -5">>
    /\ Last(notices).detail = "RangeError: Invalid count value: -5"

\* C6: once a fetchQuota call has settled, on whatever path, its timer is
\* not pending and the abort callback cannot run.
C6_TimerClearedOnEveryExit ==
    pc \in {"settled", "idle"} => timer # "pending" /\ ~ENABLED TimerFire

C6_Witness ==
    /\ pc = "settled"
    /\ cause = "malformed"
    /\ timer = "cleared"
    /\ ~aborted

\* C7: every invocation that awaits the request returns to idle with a
\* final notice after the fetch has settled, and no final notice is emitted
\* before the fetch has settled.
C7_InvocationReturnsToIdle ==
    /\ (pc # "idle") ~> (pc = "idle" /\ cause # "none" /\ Len(notices) = 2)
    /\ [](requests # <<>> /\ Len(notices) > 1 => pc = "idle" /\ cause # "none")

\* The timer is still armed, and due, while the response body is read.
C7_Witness ==
    /\ pc = "awaitText"
    /\ timer = "pending"
    /\ elapsed >= FETCH_TIMEOUT_MS

HasReport == pc = "idle" /\ Len(notices) > 0 /\ IsReport(Last(notices))

ReportRows == {i \in 1..Len(Last(notices).lines) : Last(notices).lines[i].kind = "row"}

\* The rows of the report that show the name n.
RowsNamed(n) ==
    {i \in ReportRows :
        LET shown == Last(notices).lines[i].name IN shown = padEnd(n, Len(shown))}

Kept(values) == {i \in 1..Len(values) : values[i] # None /\ ~Dropped(values[i][1])}

\* C8: in a report, every name is shown by as many rows as the response
\* has entries of that name that are not internal, unnamed or of the
\* deprecated family, and there are no other rows; so a dropped entry has
\* no row and every other entry has exactly one.
C8_ReportRowsAreTheKeptEntries ==
    HasReport =>
        LET values == fetched[1].models[1]
            names == {values[i][1].displayName[1] :
                        i \in {j \in 1..Len(values) :
                                 values[j] # None /\ values[j][1].displayName # None}}
        IN /\ Cardinality(ReportRows) = Cardinality(Kept(values))
           /\ \A n \in names :
                  Cardinality(RowsNamed(n)) =
                      Cardinality({i \in Kept(values) : values[i][1].displayName = Some(n)})
           /\ \A i \in ReportRows : ~includes(Last(notices).lines[i].name, DEPRECATED)

C8_Witness ==
    /\ HasReport
    /\ Len(fetched[1].models[1]) = 2
    /\ fetched[1].models[1][1][1].displayName = Some(N_Gemini25Pro)
    /\ Cardinality(ReportRows) = 1

HasKeyword(m, kw) == includes(toLowerCase(m.name), kw)

CountIn(q, r) == Cardinality({i \in 1..Len(q) : q[i] = r})

\* C9: the buckets partition the normalized list: each model is in exactly
\* one bucket, the buckets hold together what the list holds, Claude holds
\* the names with "claude" (also those with "gemini"), Gemini the other
\* names with "gemini", Other the rest, case-insensitively.
C9_GroupingIsAPartition ==
    pc = "idle" /\ models # <<>> =>
        /\ Len(groups.Claude) + Len(groups.Gemini) + Len(groups.Other) = Len(models)
        /\ \A i \in 1..Len(models) :
               /\ CountIn(models, models[i]) =
                      CountIn(groups.Claude, models[i]) + CountIn(groups.Gemini, models[i])
                      + CountIn(groups.Other, models[i])
               /\ Cardinality({b \in {"Claude", "Gemini", "Other"} :
                                  CountIn(groups[b], models[i]) > 0}) = 1
        /\ \A i \in 1..Len(groups.Claude) : HasKeyword(groups.Claude[i], KW_claude)
        /\ \A i \in 1..Len(groups.Gemini) :
               HasKeyword(groups.Gemini[i], KW_gemini) /\ ~HasKeyword(groups.Gemini[i], KW_claude)
        /\ \A i \in 1..Len(groups.Other) :
               ~HasKeyword(groups.Other[i], KW_gemini) /\ ~HasKeyword(groups.Other[i], KW_claude)

C9_Witness ==
    /\ pc = "idle"
    /\ Len(models) = 2
    /\ Len(groups.Claude) = 1
    /\ groups.Claude[1].name = N_GeminiClaude
    /\ Len(groups.Gemini) = 1

\* The least number of whole minutes that cover delta milliseconds.
CeilMinutes(delta) ==
    CHOOSE m \in 0..(delta \div MS_PER_MINUTE + 1) :
        m * MS_PER_MINUTE >= delta /\ (m - 1) * MS_PER_MINUTE < delta

Countdown(target, now) ==
    IF target - now <= 0 THEN "Ready"
    ELSE LET minutes == CeilMinutes(target - now)
         IN IF minutes >= 60
            THEN ToString(minutes \div 60) \o "h " \o ToString(minutes % 60) \o "m"
            ELSE ToString(minutes) \o "m"

Rendered == renOut # None /\ renOut[1].notices # <<>> /\ IsReport(Last(renOut[1].notices))

\* The lines of that report between the rule under the header and the
\* trailing rule.
RenderedBody ==
    LET lines == Last(renOut[1].notices).lines
    IN SubSeq(lines, 5, Len(lines) - 1)

\* 1, 2, 3: the row shows a Claude, a Gemini, another model.
FamilyOf(row) ==
    IF includes(toLowerCase(row.name), KW_claude) THEN 1
    ELSE IF includes(toLowerCase(row.name), KW_gemini) THEN 2
    ELSE 3

\* C11: in every rendered report the lines between the header and the
\* trailing rule start and end with a model row; a blank line stands between
\* two rows exactly when the second belongs to a later bucket than the first
\* (so one blank line separates two consecutive non-empty buckets, also
\* Claude and Other when Gemini is empty, and the buckets come in the order
\* Claude, Gemini, Other); two rows that follow each other directly belong to
\* the same bucket.
C11_OneBlankLineBetweenBuckets ==
    Rendered =>
        LET body == RenderedBody
        IN /\ Len(body) >= 1
           /\ body[1].kind = "row"
           /\ body[Len(body)].kind = "row"
           /\ \A i \in 1..Len(body) : body[i].kind \in {"row", "blank"}
           /\ \A i \in 1..Len(body) :
                  body[i].kind = "blank" =>
                      /\ i > 1 /\ i < Len(body)
                      /\ body[i - 1].kind = "row"
                      /\ body[i + 1].kind = "row"
                      /\ FamilyOf(body[i - 1]) < FamilyOf(body[i + 1])
           /\ \A i \in 1..(Len(body) - 1) :
                  (body[i].kind = "row" /\ body[i + 1].kind = "row") =>
                      FamilyOf(body[i]) = FamilyOf(body[i + 1])

\* A report of a Claude model and another model, no Gemini model between
\* them: row, blank line, row.
C11_Witness ==
    /\ Rendered
    /\ Len(RenderedBody) = 3
    /\ RenderedBody[2].kind = "blank"
    /\ FamilyOf(RenderedBody[1]) = 1
    /\ FamilyOf(RenderedBody[3]) = 3

CountdownForms ==
    {"-", "Ready"}
    \cup {ToString(m) \o "m" : m \in 1..59}
    \cup {ToString(h) \o "h " \o ToString(m) \o "m" : h \in 1..MaxCountdownHours, m \in 0..59}

\* C13: the formatted reset countdown of every normalized model record,
\* whatever the raw resetTime was (absent, empty, a timestamp in the past or
\* the future, a string that does not parse), has one of the forms "-",
\* "Ready", "<m>m" or "<h>h <m>m".
C13_CountdownWellFormed ==
    \A i \in 1..Len(models) : models[i].resetTime \in CountdownForms

(***************************************************************************)
(* C14.  The notices and requests of one invocation.                       *)
(***************************************************************************)
T_Fetching == [kind |-> "notify", severity |-> "info", what |-> "fetching"]

T_Request == [kind |-> "request", severity |-> "", what |-> ""]

\* The four complete traces: a warning alone; "Fetching", the request, then
\* an error, the "No quota information" warning or the report.
CompleteTraces ==
    { <<[kind |-> "notify", severity |-> "warning", what |-> "other"]>>,
      <<T_Fetching, T_Request, [kind |-> "notify", severity |-> "error", what |-> "other"]>>,
      <<T_Fetching, T_Request, [kind |-> "notify", severity |-> "warning", what |-> "no-quota"]>>,
      <<T_Fetching, T_Request, [kind |-> "notify", severity |-> "info", what |-> "report"]>> }

\* C14: at every moment of an invocation there is at most one request and it
\* directly follows the "Fetching" notice, which is the first event; the
\* fetch() calls recorded are those of the trace; and when the invocation
\* has ended its notices and requests form one of the four complete traces,
\* so exactly one terminal notice ends it and a failed fetch is not retried.
C14_FourTraces ==
    /\ Cardinality({i \in 1..Len(trace) : trace[i].kind = "request"}) <= 1
    /\ Cardinality({i \in 1..Len(trace) : trace[i].kind = "request"}) = Len(requests)
    /\ Cardinality({i \in 1..Len(trace) : trace[i].kind = "notify"}) = Len(notices)
    /\ \A i \in 1..Len(trace) :
           trace[i].kind = "request" => (i = 2 /\ trace[1] = T_Fetching)
    /\ (invoked /\ pc # "idle") => trace = <<T_Fetching, T_Request>>
    /\ (invoked /\ pc = "idle") => trace \in CompleteTraces

\* An invocation that ended with the report.
C14_Witness ==
    /\ invoked
    /\ pc = "idle"
    /\ Len(trace) = 3
    /\ trace[3].what = "report"
    /\ Len(requests) = 1

(***************************************************************************)
(* C15.  Bars of a report when fractions are out of range.                 *)
(***************************************************************************)
\* A fraction (in thousandths) whose percent gives more than 10 or fewer
\* than 0 filled glyphs: round(f / 10) >= 105 or round(f / 10) <= -6.
OutOfBar(f) == ~IsNaN(f) /\ (f >= 1045 \/ f < 0 - 55)

\* The reports among the notices of the report harness.
RenderedReports == {i \in 1..Len(renOut[1].notices) : IsReport(renOut[1].notices[i])}

\* C15: whenever a report is emitted, the bar of every model row has
\* non-negative numbers of filled and empty glyphs that add up to 10,
\* whatever the fractions of the response; and when an entry that is kept
\* has a fraction whose filled count would exceed 10 or fall below 0 there
\* is no report and the invocation ends with an error notice.
C15_ReportBarsWellFormed ==
    renOut # None =>
        LET out == renOut[1]
        IN /\ ~out.threw
           /\ \A i \in RenderedReports :
                  \A j \in 1..Len(out.notices[i].lines) :
                      LET l == out.notices[i].lines[j]
                      IN l.kind = "row" =>
                             /\ l.filled >= 0
                             /\ l.empty >= 0
                             /\ l.filled + l.empty = 10
           /\ (\E i \in Kept(renIn) : OutOfBar(remainingOf(renIn[i][1]))) =>
                  /\ RenderedReports = {}
                  /\ Len(out.notices) = 1
                  /\ out.notices[1].severity = "error"

====
